---- MODULE Spec2Model ----
(***************************************************************************)
(* A model of norus/blog.                                                  *)
(*                                                                         *)
(*  - src/src/utils/typography.js, lines 1-20: the typography module,      *)
(*    whose body runs once when the module is loaded.                      *)
(*  - src/unnamed/part_000: the post template, BlogPostTemplate.render.    *)
(*  - src/src/utils/typography.js, lines 394-499: the updateTotals Lambda  *)
(*    of the "Budget Update" post (Python), run by concurrent invocations  *)
(*    over one Totals table.                                               *)
(*                                                                         *)
(* Spec is the blog (module load, then renders); SpecTotals is the         *)
(* updateTotals pipeline.  Each specification leaves the other's           *)
(* variables alone.                                                        *)
(***************************************************************************)
EXTENDS Integers, Sequences, FiniteSets, TLC

VARIABLES
    \* ---- typography module (typography.js 1-20)
    nodeEnv,          \* process.env.NODE_ENV
    modpc,            \* the module body's position
    twinPeaksTheme,   \* the imported theme object
    typography,       \* const typography
    injectCalls,      \* how often typography.injectStyles() was called
    exported,         \* the module's default export
    \* ---- BlogPostTemplate (part_000)
    props,            \* this.props
    instance,         \* the fields the component's code has put on `this`
    output,           \* what the last render() call returned
    lastOp,           \* history: the last step of the component
    first,            \* history: the first render() call, props and result
    renders,          \* history: how many render() calls were made
    \* ---- updateTotals (typography.js 394-499)
    totals,           \* the Totals table: period -> item
    batch,            \* each invocation's event['Records']
    tpc,              \* each invocation's position
    idx,              \* each invocation's position in its batch
    resp,             \* each invocation's get_totals response
    restarts,         \* how often each invocation was restarted
    applied,          \* history: how often each record's write succeeded
    readAt            \* history: the writes a period had when each invocation read it

blogVars == <<nodeEnv, modpc, twinPeaksTheme, typography, injectCalls, exported,
              props, instance, output, lastOp, first, renders>>
totalsVars == <<totals, batch, tpc, idx, resp, restarts, applied, readAt>>
vars == <<nodeEnv, modpc, twinPeaksTheme, typography, injectCalls, exported,
          props, instance, output, lastOp, first, renders,
          totals, batch, tpc, idx, resp, restarts, applied, readAt>>

(***************************************************************************)
(* JavaScript values.  Objects are records, strings are strings; null and  *)
(* undefined are the two records below.  A text built from several pieces  *)
(* (a template literal, the children of an element) is the sequence of its *)
(* pieces.                                                                 *)
(***************************************************************************)
Null == [type |-> "null"]
Undefined == [type |-> "undefined"]

\* JavaScript's ToBoolean on the values the model passes around: null and
\* undefined are falsy, an object is truthy.
Truthy(v) == v # Null /\ v # Undefined

(***************************************************************************)
(* The typography module, typography.js lines 1-20.                        *)
(***************************************************************************)
\* process.env.NODE_ENV as the build sets it; "unset" is a build that sets none.
NodeEnvs == {"production", "development", "unset"}

\* What the arrow function of lines 4-13 returns (it ignores its arguments).
OverrideStyles ==
    ("a" :> [color |-> "#3889f7", backgroundImage |-> "none"]) @@
    ("a:hover" :> [color |-> "#e13532", textDecoration |-> "underline"])

\* A theme that has no overrideThemeStyles: no selector is overridden.
NoStyles == [sel \in {} |-> [color |-> ""]]

\* typography-theme-twin-peaks as imported on line 2.
ImportedTheme == [title |-> "Twin Peaks", overrideThemeStyles |-> NoStyles]

NoTypography == [built |-> FALSE, options |-> ImportedTheme]

\* Lines 4-13: twinPeaksTheme.overrideThemeStyles = ...
AssignOverride ==
    /\ modpc = "line4"
    /\ twinPeaksTheme' = [twinPeaksTheme EXCEPT !.overrideThemeStyles = OverrideStyles]
    /\ modpc' = "line14"
    /\ UNCHANGED <<nodeEnv, typography, injectCalls, exported>>
    /\ UNCHANGED <<props, instance, output, lastOp, first, renders>>
    /\ UNCHANGED totalsVars

\* Line 14: const typography = new Typography(twinPeaksTheme).  The library
\* copies the options it is given when it is constructed.
Construct ==
    /\ modpc = "line14"
    /\ typography' = [built |-> TRUE, options |-> twinPeaksTheme]
    /\ modpc' = "line16"
    /\ UNCHANGED <<nodeEnv, twinPeaksTheme, injectCalls, exported>>
    /\ UNCHANGED <<props, instance, output, lastOp, first, renders>>
    /\ UNCHANGED totalsVars

\* Line 16: process.env.NODE_ENV !== 'production'
ShouldInject_Inverted(env) == env = "production"

ShouldInject(env) == env # "production"

\* Lines 16-18: if (...) { typography.injectStyles() }
InjectStyles ==
    /\ modpc = "line16"
    /\ injectCalls' = IF ShouldInject(nodeEnv) THEN injectCalls + 1 ELSE injectCalls
    /\ modpc' = "line20"
    /\ UNCHANGED <<nodeEnv, twinPeaksTheme, typography, exported>>
    /\ UNCHANGED <<props, instance, output, lastOp, first, renders>>
    /\ UNCHANGED totalsVars

\* Line 20: export default typography
Export ==
    /\ modpc = "line20"
    /\ exported' = typography
    /\ modpc' = "loaded"
    /\ UNCHANGED <<nodeEnv, twinPeaksTheme, typography, injectCalls>>
    /\ UNCHANGED <<props, instance, output, lastOp, first, renders>>
    /\ UNCHANGED totalsVars

(***************************************************************************)
(* BlogPostTemplate, part_000.  The props the framework supplies.          *)
(***************************************************************************)
\* data.markdownRemark: { id, html, frontmatter: { title, date } } (lines 83-90).
\* Two posts share their html, two share their title.
Posts ==
    { [id |-> "post-a", html |-> <<"<p>", "a < b & c", "</p>">>,
       frontmatter |-> [title |-> "First steps", date |-> "May 25, 2018"]],
      [id |-> "post-b", html |-> <<"<p>", "a < b & c", "</p>">>,
       frontmatter |-> [title |-> "Banking", date |-> "June 01, 2018"]],
      [id |-> "post-c", html |-> <<"<h3>", "Intro", "</h3>", "<p>", "text", "</p>">>,
       frontmatter |-> [title |-> "First steps", date |-> "May 25, 2018"]] }

\* data.site (lines 77-82), with and without siteMetadata.title.
Sites ==
    { [siteMetadata |-> [title |-> "Dude, wait", author |-> "norus"]],
      [siteMetadata |-> [author |-> "norus"]] }

\* pathContext.previous and pathContext.next: null for a terminal post,
\* otherwise a post summary with fields.slug and frontmatter.title.
Summaries ==
    { [fields |-> [slug |-> "/first-steps-in-ml/"], frontmatter |-> [title |-> "First steps"]],
      [fields |-> [slug |-> "/banking-notifications/"], frontmatter |-> [title |-> "Banking"]] }

Siblings == {Null} \cup Summaries

PropsSet ==
    [data : [markdownRemark : Posts, site : Sites],
     pathContext : [previous : Siblings, next : Siblings]]

(***************************************************************************)
(* BlogPostTemplate.render, part_000 lines 13-70.                          *)
(***************************************************************************)
\* lodash get(object, path): the value at the path, undefined as soon as a
\* step is missing.  A found value v comes back as [type |-> "value", value |-> v].
RECURSIVE Get(_, _)
Get(obj, path) ==
    IF path = <<>>
    THEN [type |-> "value", value |-> obj]
    ELSE IF Head(path) \in DOMAIN obj
         THEN Get(obj[Head(path)], Tail(path))
         ELSE Undefined

\* A value inside a template literal, `${v}`: undefined becomes the text
\* "undefined", a string is itself.
TemplateText(v) == IF v = Undefined THEN "undefined" ELSE v.value

\* Line 26: `${post.frontmatter.title} | ${siteTitle}`
HelmetTitle(post, siteTitle) ==
    <<post.frontmatter.title, " | ", TemplateText(siteTitle)>>

\* Lines 19-22: const disqusConfig = { identifier: post.id, title: post.frontmatter.title }
disqusConfig_ByTitle(post) ==
    [identifier |-> post.frontmatter.title, title |-> post.frontmatter.title]

disqusConfig(post) ==
    [identifier |-> post.id, title |-> post.frontmatter.title]

\* Line 18
disqusShortname == "dude-wait4-io"

\* Line 36: dangerouslySetInnerHTML={{ __html: post.html }}
InnerHTML_FirstNode(html) == [__html |-> SubSeq(html, 1, 3)]

InnerHTML(html) == [__html |-> html]

\* Lines 52-56 and 60-64: the two list items.
PrevItem(previous) ==
    [rel |-> "prev", to |-> previous.fields.slug,
     label |-> <<"← ", previous.frontmatter.title>>]

NextItem(next) ==
    [rel |-> "next", to |-> next.fields.slug,
     label |-> <<next.frontmatter.title, " →">>]

\* Lines 51-65: {previous && (...)} {next && (...)}, the children of the <ul>.
NavLinks_Coupled(previous, next) ==
    (IF Truthy(previous) THEN <<PrevItem(previous)>> ELSE <<>>) \o
    (IF Truthy(previous) /\ Truthy(next) THEN <<NextItem(next)>> ELSE <<>>)

NavLinks_NextFirst(previous, next) ==
    (IF Truthy(next) THEN <<NextItem(next)>> ELSE <<>>) \o
    (IF Truthy(previous) THEN <<PrevItem(previous)>> ELSE <<>>)

NavLinks(previous, next) ==
    (IF Truthy(previous) THEN <<PrevItem(previous)>> ELSE <<>>) \o
    (IF Truthy(next) THEN <<NextItem(next)>> ELSE <<>>)

\* Where render() reads a property of a value that may be null: post.id,
\* post.frontmatter, post.html (lines 20, 21, 26, 27, 33, 36).  The reads of
\* previous.fields and next.fields are guarded (lines 51, 59).
Throws_UnguardedSiblings(p) ==
    \/ ~Truthy(p.data.markdownRemark)
    \/ ~Truthy(p.pathContext.previous)
    \/ ~Truthy(p.pathContext.next)

Throws(p) == ~Truthy(p.data.markdownRemark)

\* render(), lines 13-70: what it returns for this.props = p.
render(p) ==
    LET post == p.data.markdownRemark
        siteTitle == Get(p, <<"data", "site", "siteMetadata", "title">>)
        previous == p.pathContext.previous
        next == p.pathContext.next
    IN  IF Throws(p)
        THEN [status |-> "TypeError"]
        ELSE [status |-> "ok",
              helmetTitle |-> HelmetTitle(post, siteTitle),
              h2 |-> post.frontmatter.title,
              date |-> post.frontmatter.date,
              body |-> InnerHTML(post.html),
              links |-> NavLinks(previous, next),
              shortname |-> disqusShortname,
              config |-> disqusConfig(post)]

NotRendered == [status |-> "none"]
NoFirst == [set |-> FALSE]
MaxRenders == 3

\* The props that differ from p in one part: the post, the site, or one sibling.
OtherProps(p) ==
    ( {[p EXCEPT !.data.markdownRemark = x] : x \in Posts} \cup
      {[p EXCEPT !.data.site = x] : x \in Sites} \cup
      {[p EXCEPT !.pathContext.previous = x] : x \in Siblings} \cup
      {[p EXCEPT !.pathContext.next = x] : x \in Siblings} ) \ {p}

\* The framework hands the component new props (another page, or the same
\* page with new data); what was rendered for the old props is gone.
ReceiveProps ==
    /\ modpc = "loaded"
    /\ props' \in OtherProps(props)
    /\ output' = NotRendered
    /\ lastOp' = "props"
    /\ UNCHANGED <<instance, first, renders>>
    /\ UNCHANGED <<nodeEnv, modpc, twinPeaksTheme, typography, injectCalls, exported>>
    /\ UNCHANGED totalsVars

\* A render() call that also writes to the component and to its props.
Render_Stateful ==
    /\ modpc = "loaded"
    /\ renders < MaxRenders
    /\ output' = render(props)
    /\ first' = IF first.set THEN first
                ELSE [set |-> TRUE, props |-> props, output |-> render(props)]
    /\ renders' = renders + 1
    /\ lastOp' = "render"
    /\ instance' = instance \cup {"cache"}
    /\ props' = [props EXCEPT !.pathContext.next = Null]
    /\ UNCHANGED <<nodeEnv, modpc, twinPeaksTheme, typography, injectCalls, exported>>
    /\ UNCHANGED totalsVars

\* The framework calls render(), lines 13-70: no assignment to this, to
\* this.props or to anything they hold.
Render ==
    /\ modpc = "loaded"
    /\ renders < MaxRenders
    /\ output' = render(props)
    /\ first' = IF first.set THEN first
                ELSE [set |-> TRUE, props |-> props, output |-> render(props)]
    /\ renders' = renders + 1
    /\ lastOp' = "render"
    /\ UNCHANGED <<props, instance>>
    /\ UNCHANGED <<nodeEnv, modpc, twinPeaksTheme, typography, injectCalls, exported>>
    /\ UNCHANGED totalsVars

(***************************************************************************)
(* updateTotals, typography.js lines 394-499 (Python).  Amounts are whole  *)
(* numbers of a currency unit; a datetime is its year, month and day.      *)
(***************************************************************************)
\* The invocations of the Lambda that run at the same time, each on its own
\* batch of stream records.
Invocations == {"A", "B"}

MaxBatch == 2
MaxRestarts == 1

\* The NewImage of a stream record: a row of Transactions (lines 365-371).
Transactions ==
    { [datetime |-> [year |-> 2018, month |-> 5, day |-> 31], debit |-> 1, credit |-> 0, balance |-> 9],
      [datetime |-> [year |-> 2018, month |-> 6, day |-> 1], debit |-> 0, credit |-> 2, balance |-> 11] }

\* The stream records a batch is made of: every transaction as an INSERT,
\* and one of them as a MODIFY.
Records ==
    {[eventName |-> "INSERT", dynamodb |-> [NewImage |-> t]] : t \in Transactions} \cup
    {[eventName |-> "MODIFY",
      dynamodb |-> [NewImage |-> [datetime |-> [year |-> 2018, month |-> 5, day |-> 31],
                                  debit |-> 1, credit |-> 0, balance |-> 9]]]}

Batches == UNION {[1..n -> Records] : n \in 1..MaxBatch}

\* Lines 429-432: get_period, the '%Y-%m' of the transaction's datetime.
get_period(trn) == <<trn.datetime.year, trn.datetime.month>>

Periods == {get_period(t) : t \in Transactions}

\* A period of the Totals table that holds no item.
NoItem == [exists |-> FALSE]

\* Line 474: 'budget': {'N': '8000'}
Budget == 8000

\* The record invocation i is at.
Current(i) == batch[i][idx[i]]

\* Line 401: record['eventName'] != 'INSERT'
Unsupported(record) == record.eventName # "INSERT"

\* Lines 400-403: the record is not an INSERT: print and return, which ends
\* the invocation.
ReturnUnsupported(i) ==
    /\ tpc[i] = "loop"
    /\ idx[i] <= Len(batch[i])
    /\ Unsupported(Current(i))
    /\ tpc' = [tpc EXCEPT ![i] = "done"]
    /\ UNCHANGED <<totals, batch, idx, resp, restarts, applied, readAt>>
    /\ UNCHANGED blogVars

\* Line 400: the for loop has no record left; the invocation has completed.
ReturnEnd(i) ==
    /\ tpc[i] = "loop"
    /\ idx[i] > Len(batch[i])
    /\ tpc' = [tpc EXCEPT ![i] = "done"]
    /\ UNCHANGED <<totals, batch, idx, resp, restarts, applied, readAt>>
    /\ UNCHANGED blogVars

\* History: how many writes (puts and updates) to the period's Totals item
\* have succeeded so far, over all invocations and their restarts.
RECURSIVE WritesOf(_, _, _)
WritesOf(i, k, period) ==
    IF k = 0
    THEN 0
    ELSE (IF get_period(batch[i][k].dynamodb.NewImage) = period THEN applied[i][k] ELSE 0)
         + WritesOf(i, k - 1, period)

RECURSIVE WritesIn(_, _)
WritesIn(invs, period) ==
    IF invs = {}
    THEN 0
    ELSE LET i == CHOOSE j \in invs : TRUE
         IN  WritesOf(i, Len(batch[i]), period) + WritesIn(invs \ {i}, period)

Writes(period) == WritesIn(Invocations, period)

\* Lines 460-463: get_totals, a consistent read of the period's item; the
\* response holds 'Item' only if there is one.
get_totals(period) ==
    IF totals[period] = NoItem
    THEN [ResponseMetadata |-> "ok"]
    ELSE [ResponseMetadata |-> "ok", Item |-> totals[period]]

\* Lines 405-423 and 441: an INSERT record: parse_transaction computes the
\* period (never None) and refresh_totals reads the period's Totals.
GetTotals(i) ==
    /\ tpc[i] = "loop"
    /\ idx[i] <= Len(batch[i])
    /\ ~Unsupported(Current(i))
    /\ resp' = [resp EXCEPT ![i] = get_totals(get_period(Current(i).dynamodb.NewImage))]
    /\ tpc' = [tpc EXCEPT ![i] = "write"]
    /\ readAt' = [readAt EXCEPT ![i] = Writes(get_period(Current(i).dynamodb.NewImage))]
    /\ UNCHANGED <<totals, batch, idx, restarts, applied>>
    /\ UNCHANGED blogVars

\* Line 476: ConditionExpression = 'attribute_not_exists(period)'
CreateCondition_Always(item) == TRUE

CreateCondition(item) == item = NoItem

\* Lines 469-476: create_totals.  The put succeeds if the period has no
\* item; otherwise it raises and the invocation ends in an exception.
CreateTotals(i) ==
    /\ tpc[i] = "write"
    /\ "Item" \notin DOMAIN resp[i]
    /\ LET trn == Current(i).dynamodb.NewImage
           period == get_period(trn)
       IN  IF CreateCondition(totals[period])
           THEN /\ totals' = [totals EXCEPT ![period] =
                                [exists |-> TRUE,
                                 total_debit |-> trn.debit,
                                 total_credit |-> trn.credit,
                                 budget |-> Budget,
                                 total_balance |-> trn.balance]]
                /\ applied' = [applied EXCEPT ![i][idx[i]] = @ + 1]
                /\ idx' = [idx EXCEPT ![i] = @ + 1]
                /\ tpc' = [tpc EXCEPT ![i] = "loop"]
           ELSE /\ tpc' = [tpc EXCEPT ![i] = "error"]
                /\ UNCHANGED <<totals, applied, idx>>
    /\ UNCHANGED <<batch, resp, restarts, readAt>>
    /\ UNCHANGED blogVars

\* Line 487: ConditionExpression = '(#total_debit = :total_debit) and
\* (#total_credit = :total_credit) and (#total_balance = :total_balance)',
\* the values being those of the response read before.
UpdateCondition_DebitOnly(item, read) ==
    /\ item # NoItem
    /\ item.total_debit = read.total_debit

UpdateCondition(item, read) ==
    /\ item # NoItem
    /\ item.total_debit = read.total_debit
    /\ item.total_credit = read.total_credit
    /\ item.total_balance = read.total_balance

\* Lines 445-454 and 483-498: update_totals.  The update adds the debit and
\* the credit and sets the balance if the condition holds; otherwise it
\* raises and the invocation ends in an exception.
UpdateTotals(i) ==
    /\ tpc[i] = "write"
    /\ "Item" \in DOMAIN resp[i]
    /\ LET trn == Current(i).dynamodb.NewImage
           period == get_period(trn)
       IN  IF UpdateCondition(totals[period], resp[i].Item)
           THEN /\ totals' = [totals EXCEPT ![period] =
                                [@ EXCEPT !.total_debit = @ + trn.debit,
                                          !.total_credit = @ + trn.credit,
                                          !.total_balance = trn.balance]]
                /\ applied' = [applied EXCEPT ![i][idx[i]] = @ + 1]
                /\ idx' = [idx EXCEPT ![i] = @ + 1]
                /\ tpc' = [tpc EXCEPT ![i] = "loop"]
           ELSE /\ tpc' = [tpc EXCEPT ![i] = "error"]
                /\ UNCHANGED <<totals, applied, idx>>
    /\ UNCHANGED <<batch, resp, restarts, readAt>>
    /\ UNCHANGED blogVars

\* Line 480: an exception forces "the entire Lambda function to restart":
\* the invocation runs again on its whole batch, from the first record.
Restart(i) ==
    /\ tpc[i] = "error"
    /\ restarts[i] < MaxRestarts
    /\ restarts' = [restarts EXCEPT ![i] = @ + 1]
    /\ idx' = [idx EXCEPT ![i] = 1]
    /\ tpc' = [tpc EXCEPT ![i] = "loop"]
    /\ UNCHANGED <<totals, batch, resp, applied, readAt>>
    /\ UNCHANGED blogVars

BlogIdle ==
    /\ nodeEnv = "unset"
    /\ modpc = "idle"
    /\ twinPeaksTheme = <<>>
    /\ typography = <<>>
    /\ injectCalls = 0
    /\ exported = <<>>
    /\ props = <<>>
    /\ instance = {}
    /\ output = <<>>
    /\ lastOp = "none"
    /\ first = <<>>
    /\ renders = 0

InitTotals ==
    /\ totals = [p \in Periods |-> NoItem]
    /\ batch \in [Invocations -> Batches]
    /\ tpc = [i \in Invocations |-> "loop"]
    /\ idx = [i \in Invocations |-> 1]
    /\ resp = [i \in Invocations |-> [ResponseMetadata |-> "none"]]
    /\ restarts = [i \in Invocations |-> 0]
    /\ applied = [i \in Invocations |-> [k \in 1..Len(batch[i]) |-> 0]]
    /\ readAt = [i \in Invocations |-> 0]
    /\ BlogIdle

NextTotals ==
    \E i \in Invocations :
        \/ ReturnUnsupported(i)
        \/ ReturnEnd(i)
        \/ GetTotals(i)
        \/ CreateTotals(i)
        \/ UpdateTotals(i)
        \/ Restart(i)

SpecTotals == InitTotals /\ [][NextTotals]_vars

(***************************************************************************)
(* The blog: the module is loaded, then the framework renders.             *)
(***************************************************************************)
TotalsIdle ==
    /\ totals = <<>>
    /\ batch = <<>>
    /\ tpc = <<>>
    /\ idx = <<>>
    /\ resp = <<>>
    /\ restarts = <<>>
    /\ applied = <<>>
    /\ readAt = <<>>

Init ==
    /\ nodeEnv \in NodeEnvs
    /\ modpc = "line4"
    /\ twinPeaksTheme = ImportedTheme
    /\ typography = NoTypography
    /\ injectCalls = 0
    /\ exported = NoTypography
    /\ props \in PropsSet
    /\ instance = {}
    /\ output = NotRendered
    /\ lastOp = "none"
    /\ first = NoFirst
    /\ renders = 0
    /\ TotalsIdle

Next ==
    \/ AssignOverride
    \/ Construct
    \/ InjectStyles
    \/ Export
    \/ ReceiveProps
    \/ Render

Spec == Init /\ [][Next]_vars

(***************************************************************************)
(* Properties of the blog, checked under Spec.                             *)
(***************************************************************************)
\* The list items of a render() result; a call that threw emitted none.
LinksOf(out) == IF out.status = "ok" THEN out.links ELSE <<>>

HasLink(out, rel) == \E i \in 1..Len(LinksOf(out)) : LinksOf(out)[i].rel = rel

\* The parts of a render() result other than the navigation links.
CoreOf(out) ==
    [helmetTitle |-> out.helmetTitle, h2 |-> out.h2, date |-> out.date,
     body |-> out.body, shortname |-> out.shortname, config |-> out.config]

\* C1: whenever render() has run on the current props, its result holds the
\* previous link exactly if pathContext.previous is present and the next
\* link exactly if pathContext.next is present, each whatever the other is.
C1_LinkIffSibling ==
    output # NotRendered =>
        /\ HasLink(output, "prev") <=> (props.pathContext.previous # Null)
        /\ HasLink(output, "next") <=> (props.pathContext.next # Null)

\* A terminal post was rendered: next is present, previous is not, and the
\* one link emitted is the next link.
C1_Witness ==
    /\ output # NotRendered
    /\ props.pathContext.previous = Null
    /\ props.pathContext.next # Null
    /\ HasLink(output, "next")
    /\ ~HasLink(output, "prev")

\* C2: with both siblings present render() emits exactly two links, the
\* previous one first; each targets its own sibling's slug and is labelled
\* with its own sibling's title, never with the other sibling's.
C2_BothLinksOwnTargets ==
    (/\ output # NotRendered
     /\ props.pathContext.previous # Null
     /\ props.pathContext.next # Null) =>
        LET previous == props.pathContext.previous
            next == props.pathContext.next
            links == LinksOf(output)
        IN  /\ Len(links) = 2
            /\ links[1].rel = "prev"
            /\ links[1].to = previous.fields.slug
            /\ links[1].label = <<"← ", previous.frontmatter.title>>
            /\ links[2].rel = "next"
            /\ links[2].to = next.fields.slug
            /\ links[2].label = <<next.frontmatter.title, " →">>
            /\ previous.fields.slug # next.fields.slug =>
                  links[1].to # next.fields.slug /\ links[2].to # previous.fields.slug
            /\ previous.frontmatter.title # next.frontmatter.title =>
                  /\ \A k \in 1..Len(links[1].label) : links[1].label[k] # next.frontmatter.title
                  /\ \A k \in 1..Len(links[2].label) : links[2].label[k] # previous.frontmatter.title

\* A post between two different siblings was rendered.
C2_Witness ==
    /\ output # NotRendered
    /\ props.pathContext.previous # Null
    /\ props.pathContext.next # Null
    /\ props.pathContext.previous # props.pathContext.next
    /\ Len(LinksOf(output)) = 2

\* The site title of the props: siteMetadata.title, and no text when the
\* props hold none.
SiteTitleOf(p) ==
    IF "title" \in DOMAIN p.data.site.siteMetadata
    THEN p.data.site.siteMetadata.title
    ELSE ""

\* C3: for every props rendered, the title handed to the head is the post's
\* title, " | ", and the site title, also when the props hold no site title.
C3_TitleIsPostThenSite ==
    output # NotRendered =>
        /\ output.status = "ok"
        /\ output.helmetTitle =
              <<props.data.markdownRemark.frontmatter.title, " | ", SiteTitleOf(props)>>

\* C4: the comment widget of every rendered post gets that post's id as
\* identifier and that post's title as title, and the one fixed shortname,
\* the same as in the first render of the run.
C4_DisqusConfigIsThePosts ==
    output # NotRendered =>
        /\ output.status = "ok"
        /\ output.config.identifier = props.data.markdownRemark.id
        /\ output.config.title = props.data.markdownRemark.frontmatter.title
        /\ output.shortname = "dude-wait4-io"
        /\ first.set => output.shortname = first.output.shortname

\* A post was rendered whose previous and next siblings both carry another
\* title than the post, after a render of another post.
C4_Witness ==
    /\ output # NotRendered
    /\ first.set
    /\ first.props.data.markdownRemark.id # props.data.markdownRemark.id
    /\ props.pathContext.previous # Null
    /\ props.pathContext.next # Null
    /\ props.pathContext.previous.frontmatter.title # props.data.markdownRemark.frontmatter.title
    /\ props.pathContext.next.frontmatter.title # props.data.markdownRemark.frontmatter.title
    /\ output.config.identifier = "post-b"

\* C5: the body region of every rendered post holds the post's html piece
\* for piece; against the first render of the run, the body regions are
\* equal exactly if the two posts' html are equal.
C5_BodyIsHtmlVerbatim ==
    output # NotRendered =>
        /\ output.status = "ok"
        /\ output.body.__html = props.data.markdownRemark.html
        /\ first.set =>
              ((first.output.body = output.body) <=>
               (first.props.data.markdownRemark.html = props.data.markdownRemark.html))

\* A post whose html holds "<" and "&" was rendered after a post with
\* another html.
C5_Witness ==
    /\ output # NotRendered
    /\ first.set
    /\ first.props.data.markdownRemark.html # props.data.markdownRemark.html
    /\ props.data.markdownRemark.html[2] = "a < b & c"
    /\ output.body.__html[2] = "a < b & c"

\* Whether sibling s is absent, or is the same as sibling t.
AbsentOrSame(s, t) == s = Null \/ s = t

\* The links of a full render that remain when only the siblings present in
\* p are linked.
RemainingLinks(links, p) ==
    SelectSeq(links, LAMBDA l :
        \/ l.rel = "prev" /\ p.pathContext.previous # Null
        \/ l.rel = "next" /\ p.pathContext.next # Null)

\* C6: a render of a post with an absent sibling ends without an error; and
\* against the first render of the run, when that was of the same post and
\* site with both siblings present, it has the same title metadata,
\* heading, date, body and comment-widget configuration, and its links are
\* the first render's without the item of each absent sibling.
C6_TerminalPostRendersTheSame ==
    (/\ output # NotRendered
     /\ (props.pathContext.previous = Null \/ props.pathContext.next = Null)) =>
        /\ output.status = "ok"
        /\ (/\ first.set
            /\ first.props.data = props.data
            /\ first.props.pathContext.previous # Null
            /\ first.props.pathContext.next # Null
            /\ AbsentOrSame(props.pathContext.previous, first.props.pathContext.previous)
            /\ AbsentOrSame(props.pathContext.next, first.props.pathContext.next)) =>
               /\ first.output.status = "ok"
               /\ CoreOf(output) = CoreOf(first.output)
               /\ LinksOf(output) = RemainingLinks(LinksOf(first.output), props)

\* The same post was rendered with both siblings, then without its previous
\* one.
C6_Witness ==
    /\ output # NotRendered
    /\ first.set
    /\ first.props.data = props.data
    /\ first.props.pathContext.previous # Null
    /\ first.props.pathContext.next # Null
    /\ props.pathContext.previous = Null
    /\ props.pathContext.next = first.props.pathContext.next
    /\ Len(LinksOf(first.output)) = 2
    /\ Len(LinksOf(output)) = 1

\* C7: a render() call changes neither the props nor the component, and it
\* returns for the props of the first render of the run what that render
\* returned.
C7_RenderIsPure ==
    [][(lastOp' = "render" /\ renders' # renders) =>
          /\ props' = props
          /\ instance' = instance
          /\ instance' = {}
          /\ (first.set /\ first.props = props) => output' = first.output]_vars

\* The props of the first render were rendered again as the third render,
\* after the props had changed in between.
C7_Witness ==
    /\ renders = 3
    /\ lastOp = "render"
    /\ first.set
    /\ first.props = props
    /\ output = first.output
    /\ output.status = "ok"

\* C8: once the module is loaded, injectStyles was called exactly if
\* NODE_ENV is not 'production' (and at no point of a production load), and
\* the export is the Typography object built from the theme with the link
\* colour and the hover colour and underline overridden.
C8_InjectOutsideProduction ==
    /\ nodeEnv = "production" => injectCalls = 0
    /\ modpc = "loaded" =>
        /\ (injectCalls > 0) <=> (nodeEnv # "production")
        /\ exported.built
        /\ exported = typography
        /\ exported.options.title = ImportedTheme.title
        /\ DOMAIN exported.options.overrideThemeStyles = {"a", "a:hover"}
        /\ exported.options.overrideThemeStyles["a"].color = "#3889f7"
        /\ exported.options.overrideThemeStyles["a:hover"].color = "#e13532"
        /\ exported.options.overrideThemeStyles["a:hover"].textDecoration = "underline"

\* A production build has loaded the module.
C8_Witness ==
    /\ modpc = "loaded"
    /\ nodeEnv = "production"
    /\ injectCalls = 0
    /\ exported.built

(***************************************************************************)
(* Properties of updateTotals, checked under SpecTotals.                   *)
(***************************************************************************)
\* The sum of field f over the INSERT records of a batch that fall in a period.
RECURSIVE SumOver(_, _, _)
SumOver(records, period, f) ==
    IF records = <<>>
    THEN 0
    ELSE (IF /\ Head(records).eventName = "INSERT"
             /\ get_period(Head(records).dynamodb.NewImage) = period
          THEN Head(records).dynamodb.NewImage[f]
          ELSE 0) + SumOver(Tail(records), period, f)

\* The sums over the transactions inserted in a period, over all batches.
RECURSIVE SumOfBatches(_, _, _)
SumOfBatches(invs, period, f) ==
    IF invs = {}
    THEN 0
    ELSE LET i == CHOOSE j \in invs : TRUE
         IN  SumOver(batch[i], period, f) + SumOfBatches(invs \ {i}, period, f)

\* What the Totals item of a period says, nothing counting as zero.
TotalDebit(period) == IF totals[period] = NoItem THEN 0 ELSE totals[period].total_debit
TotalCredit(period) == IF totals[period] = NoItem THEN 0 ELSE totals[period].total_credit

AllCompleted == \A i \in Invocations : tpc[i] = "done"

AllInserts == \A i \in Invocations : \A k \in 1..Len(batch[i]) : batch[i][k].eventName = "INSERT"

\* C9: when all invocations have completed, restarted ones included, the
\* Totals item of every period holds the sum of the debits and the sum of
\* the credits of the period's inserted transactions.  Stated for batches of
\* INSERT records only, where no record is left out by the handler's return.
C9_EveryInsertCountedOnce ==
    (AllInserts /\ AllCompleted) =>
        \A period \in Periods :
            /\ TotalDebit(period) = SumOfBatches(Invocations, period, "debit")
            /\ TotalCredit(period) = SumOfBatches(Invocations, period, "credit")

\* C10: when an invocation that was never restarted has completed, every
\* INSERT record of its batch was applied to Totals once and every other
\* record not at all, wherever in the batch the records are.
C10_OnlyInsertsAppliedEachOnce ==
    \A i \in Invocations :
        (tpc[i] = "done" /\ restarts[i] = 0) =>
            \A k \in 1..Len(batch[i]) :
                applied[i][k] = IF batch[i][k].eventName = "INSERT" THEN 1 ELSE 0

\* The step is invocation i's create_totals call for a period it read as
\* missing.
CreateAttempt(i) ==
    /\ tpc[i] = "write"
    /\ "Item" \notin DOMAIN resp[i]
    /\ tpc'[i] # tpc[i]

\* C11: a create_totals call puts its item only if the period has none:
\* then the item is the call's own and the invocation goes on; if the period
\* has an item by now, the call ends in an exception and the table is left
\* as it is.  So of the invocations that read a period as missing, only the
\* first to put succeeds.
C11_CreateOnlyIfMissing ==
    [][\A i \in Invocations :
          CreateAttempt(i) =>
              LET trn == Current(i).dynamodb.NewImage
                  period == get_period(trn)
              IN  IF totals[period] = NoItem
                  THEN /\ tpc'[i] = "loop"
                       /\ totals'[period] # NoItem
                       /\ totals'[period].total_debit = trn.debit
                       /\ totals'[period].total_credit = trn.credit
                       /\ totals'[period].total_balance = trn.balance
                       /\ \A q \in Periods \ {period} : totals'[q] = totals[q]
                  ELSE /\ tpc'[i] = "error"
                       /\ totals' = totals
                       /\ applied' = applied]_vars

\* Two invocations read the same period as missing; one has put its item,
\* the other's put has ended in an exception and the winner's item stands.
C11_Witness ==
    \E i, j \in Invocations :
        /\ i # j
        /\ restarts[i] = 0
        /\ restarts[j] = 0
        /\ tpc[i] = "error"
        /\ "Item" \notin DOMAIN resp[i]
        /\ "Item" \notin DOMAIN resp[j]
        /\ resp[j].ResponseMetadata = "ok"
        /\ idx[j] = 2
        /\ applied[j][1] = 1
        /\ applied[i][idx[i]] = 0
        /\ get_period(batch[j][1].dynamodb.NewImage) = get_period(Current(i).dynamodb.NewImage)
        /\ totals[get_period(Current(i).dynamodb.NewImage)].total_debit = batch[j][1].dynamodb.NewImage.debit
        /\ totals[get_period(Current(i).dynamodb.NewImage)].total_credit = batch[j][1].dynamodb.NewImage.credit

\* The step is invocation i's update_totals call for a period it read an
\* item of.
UpdateAttempt(i) ==
    /\ tpc[i] = "write"
    /\ "Item" \in DOMAIN resp[i]
    /\ tpc'[i] # tpc[i]

====
